---- MODULE Spec2Model ----
(***************************************************************************)
(* CargoDelivery: the relational store (orders, sendings, applications,    *)
(* worker profiles), the derived attributes of Order and Sending, and the  *)
(* three post_save receivers of apps/main/models.py that enqueue e-mail    *)
(* tasks.                                                                  *)
(*                                                                         *)
(* save() writes its row in one statement (autocommit) and then sends      *)
(* post_save.  The receivers run in the saving request, outside any        *)
(* transaction: each of their queries is a statement of its own, and the   *)
(* writes of the other requests fall between them.  `requests` holds, for  *)
(* each request in flight, its position and what it has in memory.         *)
(*                                                                         *)
(* Decimal fields are exact decimals in the code; here each is an integer  *)
(* count of its smallest unit:                                             *)
(*   cargo_len, cargo_width, cargo_depth   tenths of a cm   (1 decimal)    *)
(*   total_volume, free_volume             hundredths of m^3 (2 decimals)  *)
(*   cargo_volume                          [coef, exp]: coef * 10^-exp m^3 *)
(* Dates are day ordinals.  Primary keys are positions in the table.       *)
(***************************************************************************)
EXTENDS Integers, Sequences, FiniteSets

VARIABLES orders, sendings, applications, workers, requests

vars == <<orders, sendings, applications, workers, requests>>

(***************************************************************************)
(* Bounds of the model.                                                    *)
(***************************************************************************)
MaxOrders == 2
MaxSendings == 2
MaxApplications == 3
MaxSpan == 130

(***************************************************************************)
(* Rows the other tables refer to.                                         *)
(***************************************************************************)
Users == {"u1", "u2"}
WorkerUsers == {"w1", "w2", "w3"}
Companies == {"c1", "c2"}
Cities == {"A", "B"}
Warehouses == {"wh1", "wh2", "wh3"}
Writers == {"p", "q"}
StatusSet == {"WAIT", "CONF", "DECL"}

\* User.email: not unique in Django's User, so two accounts may share one.
Email(u) ==
    CASE u = "u1" -> "u1@mail"
      [] u = "u2" -> "u2@mail"
      [] u = "w1" -> "office@mail"
      [] u = "w2" -> "office@mail"
      [] OTHER    -> "w3@mail"

\* Warehouse.city
WarehouseCity(w) == IF w = "wh2" THEN "B" ELSE "A"

(***************************************************************************)
(* Helpers.                                                                *)
(***************************************************************************)
Ids(table) == 1..Len(table)

Range(seq) == {seq[i] : i \in 1..Len(seq)}

\* An unordered queryset: the rows of S in any order the database returns.
Orderings(S) ==
    {f \in [1..Cardinality(S) -> S] : \A i, j \in 1..Cardinality(S) : i # j => f[i] # f[j]}

RECURSIVE SumOver(_, _)
SumOver(f, S) ==
    IF S = {} THEN 0
    ELSE LET x == CHOOSE y \in S : TRUE IN f[x] + SumOver(f, S \ {x})

\* Decimal.__round__ (ROUND_HALF_EVEN): x counted in units u, the result
\* counted in units m*u.
RoundHalfEven(x, m) ==
    LET q == x \div m
        r == x % m
    IN  IF 2 * r < m THEN q
        ELSE IF 2 * r > m THEN q + 1
        ELSE IF q % 2 = 0 THEN q ELSE q + 1

(***************************************************************************)
(* Order.cargo_volume                                                      *)
(***************************************************************************)
\* 1000000 = 10^6
LogMillion == 6

RECURSIVE Pow10(_)
Pow10(k) == IF k = 0 THEN 1 ELSE 10 * Pow10(k - 1)

\* round(len * width * depth, 2): the product is in thousandths of a cm^3,
\* the rounded value in hundredths of a cm^3.
RoundedCm3(order) ==
    RoundHalfEven(order.cargo_len * order.cargo_width * order.cargo_depth, 10)

\* Mutant: the exact product is scaled to m^3 first and rounded to 2 decimals
\* after.
cargo_volume_RoundAfterScaling(order) ==
    [coef |-> RoundHalfEven(order.cargo_len * order.cargo_width * order.cargo_depth,
                            Pow10(3 + LogMillion - 2)) * Pow10(LogMillion),
     exp |-> 2 + LogMillion]

\* ... / 1000000: a decimal with 2 places divided by 10^6 is the same
\* coefficient with 2 + 6 places.
cargo_volume(order) == [coef |-> RoundedCm3(order), exp |-> 2 + LogMillion]

(***************************************************************************)
(* Sending.free_volume and Sending.days                                    *)
(***************************************************************************)
\* Mutant: the orders that have an application for the sending.
SendingOrders_ViaApplications(s) ==
    {o \in Ids(orders) :
        \E a \in Ids(applications) : applications[a].order = o /\ applications[a].sending = s}

\* self.orders.all(): the rows of the sending's own many-to-many relation.
SendingOrders(s) == sendings[s].orders

\* sum([order.cargo_volume for order in self.orders.all()])
OrdersVolume(s) ==
    [coef |-> SumOver([o \in Ids(orders) |-> cargo_volume(orders[o]).coef], SendingOrders(s)),
     exp |-> 2 + LogMillion]

\* self.total_volume - round(summ, 2), in hundredths of m^3.
free_volume(s) ==
    sendings[s].total_volume
        - RoundHalfEven(OrdersVolume(s).coef, Pow10(OrdersVolume(s).exp - 2))

\* days_list = ['день', 'дня', 'дней']
days_list == <<"den", "dnya", "dney">>

num_days(sending) == sending.arrival_date - sending.departure_date

\* Mutant: the teens are not excepted.
PluralIndex_NoTeens(n) ==
    IF n % 10 = 1 THEN 1
    ELSE IF 2 <= n % 10 /\ n % 10 <= 4 THEN 2
    ELSE 3

PluralIndex(n) ==
    IF n % 10 = 1 /\ n % 100 # 11 THEN 1
    ELSE IF (2 <= n % 10 /\ n % 10 <= 4) /\ (n % 100 < 10 \/ n % 100 >= 20) THEN 2
    ELSE 3

Digit(d) == CASE d = 0 -> "0" [] d = 1 -> "1" [] d = 2 -> "2" [] d = 3 -> "3"
              [] d = 4 -> "4" [] d = 5 -> "5" [] d = 6 -> "6" [] d = 7 -> "7"
              [] d = 8 -> "8" [] OTHER -> "9"

RECURSIVE NatStr(_)
NatStr(n) == IF n < 10 THEN <<Digit(n)>> ELSE NatStr(n \div 10) \o <<Digit(n % 10)>>

\* f'{num_days}': the decimal digits, with a leading minus sign below zero.
IntStr(n) == IF n < 0 THEN <<"-">> \o NatStr(0 - n) ELSE NatStr(n)

\* f'{num_days} {days_list[p]}', as the sequence of its pieces.
days(sending) ==
    IntStr(num_days(sending)) \o <<" ", days_list[PluralIndex(num_days(sending))]>>
(***************************************************************************)
(* Requests.  A request that saves a Sending or an Application keeps, from *)
(* the row write to the end of the last receiver: the instance it saved    *)
(* (in memory, never re-read), the key of the row (`target`), the          *)
(* `created` flag of post_save, the locals of the receiver that is         *)
(* running (`todo`, `order`, `staff`) and the tasks enqueued (`sent`).     *)
(* No receiver catches what delay() raises, so the first call that raises  *)
(* ends the receiver, the remaining receivers and the save() that sent the *)
(* signal: the caller gets `error`, `raisedBy` names the receiver.         *)
(*                                                                         *)
(* `free` (did the order have no application when the instance was built)  *)
(* and `chosen` (the orders the rule selects in the store the notifier's   *)
(* query ran in) are not read by the program; they record what the         *)
(* properties need of the past.                                            *)
(***************************************************************************)
NoInstance == [none |-> TRUE]

Request(pc, op, target, created, instance) ==
    [pc |-> pc, op |-> op, target |-> target, created |-> created,
     instance |-> instance, free |-> FALSE, error |-> "none", raisedBy |-> "none",
     sent |-> <<>>, todo |-> <<>>, order |-> 0, staff |-> <<>>, chosen |-> {}]

Idle == Request("idle", "none", 0, FALSE, NoInstance)

\* A request handler that is not inside a save().
Ready(p) == requests[p].pc \in {"idle", "done"}

\* The UPDATE or INSERT was refused by the unique index: no post_save.
Refused(op, target, instance) ==
    [Request("done", op, target, FALSE, instance) EXCEPT !.error = "IntegrityError"]

\* delay() raised inside receiver `by`.
Raised(r, by) ==
    [r EXCEPT !.pc = "done", !.error = "DispatchError", !.raisedBy = by,
              !.todo = <<>>, !.order = 0]

(***************************************************************************)
(* Application: the one-to-one link from Order, and the reverse accessor.  *)
(***************************************************************************)
ApplicationsOf(o) == {a \in Ids(applications) : applications[a].order = o}

\* order.application raises ObjectDoesNotExist when there is none.
HasApplication(o) == ApplicationsOf(o) # {}

OrderApplication(o) == applications[CHOOSE a \in ApplicationsOf(o) : TRUE]

\* Mutant: a plain foreign key, no unique index.
UniqueConflict_ForeignKey(self, o) == FALSE

\* OneToOneField(to=Order): the unique index refuses a row whose order is
\* already the order of another row (`self` is 0 for a row being inserted).
UniqueConflict(self, o) == \E a \in ApplicationsOf(o) : a # self

(***************************************************************************)
(* new_sendings_email                                                      *)
(***************************************************************************)
\* Mutant: the receiver does not look at `created`.
new_sendings_email_AnySave(created) == TRUE

\* `if created:` -- does the receiver do anything for this save?
new_sendings_email(created) == created

\* Order.objects.filter(...): the arguments come from the instance in memory.
MatchedOrders(instance) ==
    {o \in Ids(orders) :
        /\ orders[o].departure_city = WarehouseCity(instance.departure_warehouse)
        /\ orders[o].arrival_city = WarehouseCity(instance.arrival_warehouse)
        /\ orders[o].departure_date = instance.departure_date}

\* order.application is one SELECT (its result is cached on the order
\* object, so the second `order.application` reads the same row).
need_send(o) ==
    IF ~HasApplication(o) THEN TRUE
    ELSE OrderApplication(o).status # "CONF"

NewSendingMail(o, sid) ==
    [task |-> "send_email_celery", by |-> "new_sendings_email",
     to |-> <<Email(orders[o].user)>>, order |-> o, sending |-> sid,
     application |-> 0, status |-> ""]

(***************************************************************************)
(* application_status_email and application_created_email                 *)
(***************************************************************************)
StatusLabel(status) ==
    CASE status = "CONF" -> "Podtverzhdeno"
      [] status = "DECL" -> "Otkloneno"
      [] OTHER -> ""

\* Mutant: the receiver runs for the creating save only.
application_status_email_CreatedOnly(instance, created) ==
    created /\ StatusLabel(instance.status) # ""

\* `if status:` -- the label comes from the instance in memory; `created`
\* is not looked at.
application_status_email(instance, created) == StatusLabel(instance.status) # ""

\* `if created:`
application_created_email(created) == created

\* Order.objects.get(application=instance): the order of the stored row
\* whose key is the instance's.
StoredOrderOf(aid) == applications[aid].order

\* Sending.objects.get(application=instance)
StoredSendingOf(aid) == applications[aid].sending

\* user_email = instance.order.user.email: the order the instance holds.
StatusMail(instance, order, sending) ==
    [task |-> "send_email_celery", by |-> "application_status_email",
     to |-> <<Email(orders[instance.order].user)>>, order |-> order,
     sending |-> sending, application |-> 0,
     status |-> StatusLabel(instance.status)]

\* WorkerProfile.objects.filter(company__sending__application=instance): a
\* join over the stored rows, keyed by the instance's primary key.
WorkersList(aid) ==
    {w \in Ids(workers) : workers[w].company = sendings[StoredSendingOf(aid)].company}

CreatedMail(aid, staff, order, sending) ==
    [task |-> "send_many_email_celery", by |-> "application_created_email",
     to |-> [i \in 1..Len(staff) |-> Email(workers[staff[i]].user)],
     order |-> order, sending |-> sending, application |-> aid, status |-> ""]

\* Where save() goes after the row is written: post_save calls the receivers
\* in the order they were connected.
AfterStatus(created) ==
    IF application_created_email(created) THEN "created_workers" ELSE "done"

AfterApplicationSave(instance, created) ==
    IF application_status_email(instance, created) THEN "status_order"
    ELSE AfterStatus(created)

AfterSendingSave(created) == IF new_sendings_email(created) THEN "fetch" ELSE "done"

(***************************************************************************)
(* Writes that send no signal anybody receives.                            *)
(***************************************************************************)
CreateOrder(u, dc, ac, d, l, w, h) ==
    /\ Len(orders) < MaxOrders
    /\ orders' = Append(orders, [user |-> u, departure_city |-> dc, arrival_city |-> ac,
                                 departure_date |-> d, cargo_len |-> l,
                                 cargo_width |-> w, cargo_depth |-> h])
    /\ UNCHANGED <<sendings, applications, workers, requests>>

UpdateOrder(o, l, w, h) ==
    /\ o \in Ids(orders)
    /\ orders' = [orders EXCEPT ![o].cargo_len = l, ![o].cargo_width = w,
                                ![o].cargo_depth = h]
    /\ UNCHANGED <<sendings, applications, workers, requests>>

\* WorkerProfile.user is one-to-one: one profile per account.
CreateWorkerProfile(u, c) ==
    /\ \A w \in Ids(workers) : workers[w].user # u
    /\ workers' = Append(workers, [user |-> u, company |-> c])
    /\ UNCHANGED <<orders, sendings, applications, requests>>

\* sending.orders.set(...): the many-to-many rows; no post_save is sent.
SetSendingOrders(sid, S) ==
    /\ sid \in Ids(sendings)
    /\ S \subseteq Ids(orders)
    /\ sendings' = [sendings EXCEPT ![sid].orders = S]
    /\ UNCHANGED <<orders, applications, workers, requests>>

(***************************************************************************)
(* Saving a Sending: the row write, then new_sendings_email statement by   *)
(* statement.                                                              *)
(***************************************************************************)
\* Sending.objects.create(...): the INSERT; post_save follows with
\* created=True.
CreateSending(p, c, dw, aw, dd, ad, tv) ==
    /\ Ready(p)
    /\ Len(sendings) < MaxSendings
    /\ LET instance == [company |-> c, departure_warehouse |-> dw,
                        arrival_warehouse |-> aw, departure_date |-> dd,
                        arrival_date |-> ad, total_volume |-> tv, orders |-> {}]
           sid == Len(sendings) + 1
       IN  /\ sendings' = Append(sendings, instance)
           /\ requests' = [requests EXCEPT ![p] =
                  Request(AfterSendingSave(TRUE), "create_sending", sid, TRUE, instance)]
    /\ UNCHANGED <<orders, applications, workers>>

\* sending.save() on a stored row: the UPDATE; post_save follows with
\* created=False.
UpdateSending(p, sid, dw, aw, dd, ad, tv) ==
    /\ Ready(p)
    /\ sid \in Ids(sendings)
    /\ LET instance == [sendings[sid] EXCEPT !.departure_warehouse = dw,
                                             !.arrival_warehouse = aw,
                                             !.departure_date = dd,
                                             !.arrival_date = ad,
                                             !.total_volume = tv]
       IN  /\ sendings' = [sendings EXCEPT ![sid] = instance]
           /\ requests' = [requests EXCEPT ![p] =
                  Request(AfterSendingSave(FALSE), "update_sending", sid, FALSE, instance)]
    /\ UNCHANGED <<orders, applications, workers>>

\* `for order in Order.objects.filter(...)`: the queryset is evaluated once,
\* when the loop starts, and yields its rows in any order.
FetchOrders(p) ==
    /\ requests[p].pc = "fetch"
    /\ \E scan \in Orderings(MatchedOrders(requests[p].instance)) :
          requests' = [requests EXCEPT ![p] =
              [requests[p] EXCEPT !.pc = IF scan = <<>> THEN "done" ELSE "scan",
                                  !.todo = scan,
                                  !.chosen = {o \in Range(scan) : need_send(o)}]]
    /\ UNCHANGED <<orders, sendings, applications, workers>>

\* One turn of the loop: the lookup of the order's application, in the store
\* as it is now, and the delay() the lookup leads to.
NotifyOrder(p) ==
    /\ requests[p].pc = "scan"
    /\ LET r == requests[p]
           o == Head(r.todo)
           rest == [r EXCEPT !.todo = Tail(r.todo),
                             !.pc = IF Tail(r.todo) = <<>> THEN "done" ELSE "scan"]
       IN  IF need_send(o)
           THEN \E raises \in BOOLEAN :
                   requests' = [requests EXCEPT ![p] =
                       IF raises THEN Raised(r, "new_sendings_email")
                       ELSE [rest EXCEPT !.sent = Append(r.sent, NewSendingMail(o, r.target))]]
           ELSE requests' = [requests EXCEPT ![p] = rest]
    /\ UNCHANGED <<orders, sendings, applications, workers>>

(***************************************************************************)
(* Saving an Application: the row write, then application_status_email and *)
(* application_created_email statement by statement.                       *)
(***************************************************************************)
\* The INSERT of an Application row built in memory.
InsertApplication(p, instance, free) ==
    IF UniqueConflict(0, instance.order)
    THEN /\ applications' = applications
         /\ requests' = [requests EXCEPT ![p] =
                [Refused("create_application", 0, instance) EXCEPT !.free = free]]
    ELSE /\ applications' = Append(applications, instance)
         /\ requests' = [requests EXCEPT ![p] =
                [Request(AfterApplicationSave(instance, TRUE), "create_application",
                         Len(applications) + 1, TRUE, instance) EXCEPT !.free = free]]

\* Application.objects.create(order=o, sending=s, status=st)
CreateApplication(p, o, s, st) ==
    /\ Ready(p)
    /\ o \in Ids(orders)
    /\ s \in Ids(sendings)
    /\ Len(applications) < MaxApplications
    /\ InsertApplication(p, [order |-> o, sending |-> s, status |-> st], ~HasApplication(o))
    /\ UNCHANGED <<orders, sendings, workers>>

\* application.save() on a stored row: the UPDATE writes every column from
\* the instance in memory (`info` is a free text that no receiver and no
\* property reads; it is left out of the rows).
SaveApplication(p, aid, o, s, st) ==
    /\ Ready(p)
    /\ aid \in Ids(applications)
    /\ o \in Ids(orders)
    /\ s \in Ids(sendings)
    /\ LET instance == [order |-> o, sending |-> s, status |-> st]
       IN  IF UniqueConflict(aid, o)
           THEN /\ applications' = applications
                /\ requests' = [requests EXCEPT ![p] =
                       Refused("save_application", aid, instance)]
           ELSE /\ applications' = [applications EXCEPT ![aid] = instance]
                /\ requests' = [requests EXCEPT ![p] =
                       Request(AfterApplicationSave(instance, FALSE), "save_application",
                               aid, FALSE, instance)]
    /\ UNCHANGED <<orders, sendings, workers>>

\* A request handler builds its Application in memory ...
PrepareApplication(p, o, s, st) ==
    /\ Ready(p)
    /\ o \in Ids(orders)
    /\ s \in Ids(sendings)
    /\ requests' = [requests EXCEPT ![p] =
           [Request("prepared", "create_application", 0, FALSE,
                    [order |-> o, sending |-> s, status |-> st])
               EXCEPT !.free = ~HasApplication(o)]]
    /\ UNCHANGED <<orders, sendings, applications, workers>>

\* ... and saves it later, whatever the others have done meanwhile.
CommitApplication(p) ==
    /\ requests[p].pc = "prepared"
    /\ Len(applications) < MaxApplications
    /\ InsertApplication(p, requests[p].instance, requests[p].free)
    /\ UNCHANGED <<orders, sendings, workers>>

\* application_status_email: order = Order.objects.get(application=instance)
StatusReadOrder(p) ==
    /\ requests[p].pc = "status_order"
    /\ requests' = [requests EXCEPT ![p] =
           [requests[p] EXCEPT !.pc = "status_sending",
                               !.order = StoredOrderOf(requests[p].target)]]
    /\ UNCHANGED <<orders, sendings, applications, workers>>

\* application_status_email: sending = Sending.objects.get(...), and the
\* delay() that nothing read from the store precedes any more.
StatusSend(p) ==
    /\ requests[p].pc = "status_sending"
    /\ LET r == requests[p]
           m == StatusMail(r.instance, r.order, StoredSendingOf(r.target))
       IN  \E raises \in BOOLEAN :
              requests' = [requests EXCEPT ![p] =
                  IF raises THEN Raised(r, "application_status_email")
                  ELSE [r EXCEPT !.pc = AfterStatus(r.created), !.order = 0,
                                 !.sent = Append(r.sent, m)]]
    /\ UNCHANGED <<orders, sendings, applications, workers>>

\* application_created_email: `for worker in workers_list` evaluates the
\* queryset, in any order.
CreatedReadWorkers(p) ==
    /\ requests[p].pc = "created_workers"
    /\ \E scan \in Orderings(WorkersList(requests[p].target)) :
          requests' = [requests EXCEPT ![p] =
              [requests[p] EXCEPT !.pc = "created_order", !.staff = scan]]
    /\ UNCHANGED <<orders, sendings, applications, workers>>

\* application_created_email: order = Order.objects.get(application=instance)
CreatedReadOrder(p) ==
    /\ requests[p].pc = "created_order"
    /\ requests' = [requests EXCEPT ![p] =
           [requests[p] EXCEPT !.pc = "created_sending",
                               !.order = StoredOrderOf(requests[p].target)]]
    /\ UNCHANGED <<orders, sendings, applications, workers>>

\* application_created_email: sending = Sending.objects.get(...), and
\* send_many_email_celery.delay(...).
CreatedSend(p) ==
    /\ requests[p].pc = "created_sending"
    /\ LET r == requests[p]
           m == CreatedMail(r.target, r.staff, r.order, StoredSendingOf(r.target))
       IN  \E raises \in BOOLEAN :
              requests' = [requests EXCEPT ![p] =
                  IF raises THEN Raised(r, "application_created_email")
                  ELSE [r EXCEPT !.pc = "done", !.order = 0,
                                 !.sent = Append(r.sent, m)]]
    /\ UNCHANGED <<orders, sendings, applications, workers>>

(***************************************************************************)
(* Specifications.                                                         *)
(***************************************************************************)
StoredOrder(u, d) ==
    [user |-> u, departure_city |-> "A", arrival_city |-> "B", departure_date |-> d,
     cargo_len |-> 10, cargo_width |-> 10, cargo_depth |-> 10]

StoredSending(c, tv, dd, ad) ==
    [company |-> c, departure_warehouse |-> "wh1", arrival_warehouse |-> "wh2",
     departure_date |-> dd, arrival_date |-> ad, total_volume |-> tv, orders |-> {}]

\* The receivers' statements, for whichever request is at them.
Fetch == \E p \in Writers : FetchOrders(p)

Notify == \E p \in Writers : NotifyOrder(p)

ReadStatusOrder == \E p \in Writers : StatusReadOrder(p)

SendStatus == \E p \in Writers : StatusSend(p)

ReadWorkers == \E p \in Writers : CreatedReadWorkers(p)

ReadCreatedOrder == \E p \in Writers : CreatedReadOrder(p)

SendCreated == \E p \in Writers : CreatedSend(p)

\* Spec: two stored orders on the route A -> B, the second at either date,
\* and one stored sending.  Request p creates and saves sendings that match
\* such an order on all three fields (by either warehouse of city A) or
\* differ from it in exactly one of them; meanwhile request q creates and
\* saves applications (for the first sending) with every status.
OrderDates == {1, 2}

SendingRoutes ==
    {<<"wh1", "wh2", 1>>, <<"wh3", "wh2", 1>>, <<"wh2", "wh2", 1>>,
     <<"wh1", "wh3", 1>>, <<"wh1", "wh2", 2>>}

Init ==
    /\ \E d \in OrderDates : orders = <<StoredOrder("u1", 1), StoredOrder("u2", d)>>
    /\ sendings = <<StoredSending("c1", 1000, 1, 2)>>
    /\ applications = <<>>
    /\ workers = <<>>
    /\ requests = [p \in Writers |-> Idle]

AddSending ==
    \E r \in SendingRoutes : CreateSending("p", "c1", r[1], r[2], r[3], r[3] + 1, 1000)

EditSending ==
    \E s \in Ids(sendings), r \in SendingRoutes :
        UpdateSending("p", s, r[1], r[2], r[3], r[3] + 1, 1000)

AddApplication ==
    \E o \in Ids(orders), st \in StatusSet : CreateApplication("q", o, 1, st)

EditApplication ==
    \E a \in Ids(applications), o \in Ids(orders), st \in StatusSet :
        SaveApplication("q", a, o, 1, st)

Next ==
    \/ AddSending \/ EditSending \/ Fetch \/ Notify
    \/ AddApplication \/ EditApplication
    \/ ReadStatusOrder \/ SendStatus \/ ReadWorkers \/ ReadCreatedOrder \/ SendCreated

Spec == Init /\ [][Next]_vars

\* SpecWorkers: two stored orders, one stored sending of each company and a
\* worker of each.  Request p creates applications with every status; while
\* its receivers run, a second worker joins either company and request q
\* saves the stored applications with any order and sending, waiting or
\* confirmed.
InitWorkers ==
    /\ orders = <<StoredOrder("u1", 1), StoredOrder("u2", 1)>>
    /\ sendings = <<StoredSending("c1", 1000, 1, 2), StoredSending("c2", 1000, 1, 2)>>
    /\ applications = <<>>
    /\ workers = <<[user |-> "w1", company |-> "c1"], [user |-> "w3", company |-> "c2"]>>
    /\ requests = [p \in Writers |-> Idle]

HireWorker == \E c \in Companies : CreateWorkerProfile("w2", c)

AddCompanyApplication ==
    \E o \in Ids(orders), s \in Ids(sendings), st \in StatusSet :
        CreateApplication("p", o, s, st)

MoveApplication ==
    \E a \in Ids(applications), o \in Ids(orders), s \in Ids(sendings),
       st \in {"WAIT", "CONF"} :
        SaveApplication("q", a, o, s, st)

NextWorkers ==
    \/ HireWorker \/ AddCompanyApplication \/ MoveApplication
    \/ ReadStatusOrder \/ SendStatus \/ ReadWorkers \/ ReadCreatedOrder \/ SendCreated

SpecWorkers == InitWorkers /\ [][NextWorkers]_vars

\* SpecStatus: two stored orders and one stored sending; two requests create
\* and save applications with every status, each while the receivers of the
\* other run.
InitStatus ==
    /\ orders = <<StoredOrder("u1", 1), StoredOrder("u2", 1)>>
    /\ sendings = <<StoredSending("c1", 1000, 1, 2)>>
    /\ applications = <<>>
    /\ workers = <<>>
    /\ requests = [p \in Writers |-> Idle]

AddAnyApplication ==
    \E p \in Writers, o \in Ids(orders), st \in StatusSet : CreateApplication(p, o, 1, st)

EditAnyApplication ==
    \E p \in Writers, a \in Ids(applications), o \in Ids(orders), st \in StatusSet :
        SaveApplication(p, a, o, 1, st)

NextStatus ==
    \/ AddAnyApplication \/ EditAnyApplication
    \/ ReadStatusOrder \/ SendStatus \/ ReadWorkers \/ ReadCreatedOrder \/ SendCreated

SpecStatus == InitStatus /\ [][NextStatus]_vars

\* SpecRace: two stored orders, one sending, one worker; two request
\* handlers build and save applications concurrently.
InitRace ==
    /\ orders = <<StoredOrder("u1", 1), StoredOrder("u2", 1)>>
    /\ sendings = <<StoredSending("c1", 1000, 1, 2)>>
    /\ applications = <<>>
    /\ workers = <<[user |-> "w1", company |-> "c1"]>>
    /\ requests = [p \in Writers |-> Idle]

Prepare ==
    \E p \in Writers, o \in Ids(orders), s \in Ids(sendings), st \in StatusSet :
        PrepareApplication(p, o, s, st)

Commit == \E p \in Writers : CommitApplication(p)

NextRace ==
    \/ Prepare \/ Commit
    \/ ReadStatusOrder \/ SendStatus \/ ReadWorkers \/ ReadCreatedOrder \/ SendCreated

SpecRace == InitRace /\ [][NextRace]_vars

\* SpecVolume: one stored sending of 0.20 or 10.00 m^3; orders over cargo
\* dimensions whose product needs rounding (0.025 cm^3, a tie, and
\* 0.027 cm^3), whose volume is a tie at 2 decimals of m^3 (0.005, 0.015) and
\* the documented 100 x 50 x 20 cm and its double; the first order applies
\* for the sending.
Dimensions ==
    {<<5, 5, 1>>, <<3, 3, 3>>, <<1000, 500, 10>>, <<1000, 500, 30>>,
     <<1000, 500, 200>>, <<1000, 500, 400>>}

TotalVolumes == {20, 1000}

AddCargo == \E d \in Dimensions : CreateOrder("u1", "A", "B", 1, d[1], d[2], d[3])

EditCargo == \E o \in Ids(orders), d \in Dimensions : UpdateOrder(o, d[1], d[2], d[3])

EditCapacity ==
    \E s \in Ids(sendings), tv \in TotalVolumes : UpdateSending("p", s, "wh1", "wh2", 1, 2, tv)

AttachOrders == \E s \in Ids(sendings), S \in SUBSET Ids(orders) : SetSendingOrders(s, S)

Apply == \E s \in Ids(sendings) : CreateApplication("q", 1, s, "WAIT")

InitVolume ==
    /\ orders = <<>>
    /\ \E tv \in TotalVolumes : sendings = <<StoredSending("c1", tv, 1, 2)>>
    /\ applications = <<>>
    /\ workers = <<>>
    /\ requests = [p \in Writers |-> Idle]

NextVolume ==
    \/ AddCargo \/ EditCargo \/ EditCapacity \/ AttachOrders \/ Apply
    \/ ReadWorkers \/ ReadCreatedOrder \/ SendCreated

SpecVolume == InitVolume /\ [][NextVolume]_vars

\* SpecDays: one stored sending over departure and arrival dates up to
\* 2 * MaxSpan days apart, in either order, and rescheduled to any of them.
DepartureDays == {0, MaxSpan}

ArrivalDays == 0..(2 * MaxSpan)

InitDays ==
    /\ orders = <<>>
    /\ \E dd \in DepartureDays, ad \in ArrivalDays :
          sendings = <<StoredSending("c1", 1000, dd, ad)>>
    /\ applications = <<>>
    /\ workers = <<>>
    /\ requests = [p \in Writers |-> Idle]

Reschedule ==
    \E s \in Ids(sendings), dd \in DepartureDays, ad \in ArrivalDays :
        UpdateSending("p", s, "wh1", "wh2", dd, ad, 1000)

NextDays == Reschedule

SpecDays == InitDays /\ [][NextDays]_vars

(***************************************************************************)
(* Properties.                                                             *)
(***************************************************************************)
\* The calls of `sent` that satisfy Test.
Calls(sent, Test(_)) == {i \in 1..Len(sent) : Test(sent[i])}

IsSingle(m) == m.task = "send_email_celery"

IsBroadcast(m) == m.task = "send_many_email_celery"

\* The route and date of order o are those of sending s.
Matches(o, s) ==
    /\ orders[o].departure_city = WarehouseCity(sendings[s].departure_warehouse)
    /\ orders[o].arrival_city = WarehouseCity(sendings[s].arrival_warehouse)
    /\ orders[o].departure_date = sendings[s].departure_date

\* Order o has no application, or one that is not confirmed.
Unconfirmed(o) ==
    \A a \in Ids(applications) :
        applications[a].order = o => applications[a].status \in {"WAIT", "DECL"}

\* The rule of the Sending-Match Notifier, stated on one store state.
Qualifies(o, s) == Matches(o, s) /\ Unconfirmed(o)

\* C1: when a Sending is created, the orders that get exactly one
\* notification, addressed to their owner and naming the new sending, are
\* those that qualify (matching route and date, no confirmed application) in
\* the store state the notifier's query ran in, and no other order gets any.
C1_SendingMatchNotifies ==
    \A p \in Writers :
        (requests[p].op = "create_sending" /\ requests[p].pc = "done") =>
            \A o \in Ids(orders) :
                LET forO(m) == m.order = o
                    mine(m) == /\ m.order = o
                               /\ IsSingle(m)
                               /\ m.to = <<Email(orders[o].user)>>
                               /\ m.sending = requests[p].target
                IN  /\ Cardinality(Calls(requests[p].sent, forO))
                          = IF o \in requests[p].chosen THEN 1 ELSE 0
                    /\ Calls(requests[p].sent, mine) = Calls(requests[p].sent, forO)

\* A save of an Application that got as far as the end of
\* application_status_email.
StatusNotifierRan(r) ==
    /\ r.op \in {"create_application", "save_application"}
    /\ r.pc = "done"
    /\ r.error # "IntegrityError"
    /\ r.raisedBy # "application_status_email"

\* C2: every save of an Application, the creating one and the later ones,
\* enqueues exactly one single-recipient notification to the owner of the
\* order the save wrote when the saved status is CONF or DECL and none when
\* it is WAIT, whatever the status was before and whatever the other
\* requests write meanwhile.
C2_StatusNotifiesOnEverySave ==
    \A p \in Writers :
        StatusNotifierRan(requests[p]) =>
            LET r == requests[p]
                toOwner(m) == IsSingle(m) /\ m.to = <<Email(orders[r.instance.order].user)>>
            IN  /\ Cardinality(Calls(r.sent, IsSingle))
                      = IF r.instance.status \in {"CONF", "DECL"} THEN 1 ELSE 0
                /\ Calls(r.sent, toOwner) = Calls(r.sent, IsSingle)

\* C2 witness: a later save (not the creation) with status CONF that
\* notified the owner of the order it wrote, although another request has
\* moved the application to the other order since.
C2_Witness ==
    \E p \in Writers :
        /\ requests[p].op = "save_application"
        /\ requests[p].pc = "done"
        /\ requests[p].error = "none"
        /\ ~requests[p].created
        /\ requests[p].instance.status = "CONF"
        /\ Cardinality(Calls(requests[p].sent, IsSingle)) = 1
        /\ applications[requests[p].target].order # requests[p].instance.order

\* C6: saving a Sending that already exists enqueues nothing and succeeds,
\* also when the saved route and date match orders that qualify.
C6_UpdateSendingIsSilent ==
    \A p \in Writers :
        requests[p].op = "update_sending" =>
            /\ requests[p].pc = "done"
            /\ requests[p].sent = <<>>
            /\ requests[p].error = "none"

\* C6 witness: an update after which an order qualifies for the sending.
C6_Witness ==
    \E p \in Writers :
        /\ requests[p].op = "update_sending"
        /\ \E o \in Ids(orders) : Qualifies(o, requests[p].target)

\* C9: when an enqueue fails during the creation of a Sending, the Sending is
\* stored and the create operation completes successfully for its caller.
C9_DispatchFailureDoesNotBlockCreate ==
    \A p \in Writers :
        (requests[p].op = "create_sending" /\ requests[p].raisedBy # "none") =>
            (requests[p].target \in Ids(sendings) /\ requests[p].error = "none")

\* C10: a notifier invocation that raises has enqueued none of its
\* notifications.
C10_NoPartialSuccess ==
    \A p \in Writers :
        requests[p].raisedBy # "none" =>
            \A i \in 1..Len(requests[p].sent) :
                requests[p].sent[i].by # requests[p].raisedBy

\* The recipients of one broadcast are the worker profiles of `staff`, one
\* entry each.
OneEntryPer(to, staff) ==
    /\ Len(to) = Cardinality(staff)
    /\ \A u \in WorkerUsers :
          Cardinality({k \in 1..Len(to) : to[k] = Email(u)})
              = Cardinality({w \in staff : Email(workers[w].user) = Email(u)})

\* A creation of an Application that is over, leaving aside the run in which
\* the broadcast itself was handed to the queue and refused.
CreationOver(r) ==
    /\ r.op = "create_application"
    /\ r.pc = "done"
    /\ r.error # "IntegrityError"
    /\ r.raisedBy # "application_created_email"

\* C3: creating an Application, whatever its status, enqueues exactly one
\* broadcast whose recipient list has one entry per WorkerProfile of the
\* company that owns the application's sending (the profiles the notifier's
\* query returned), shared addresses repeated and other companies' workers
\* left out; a later save enqueues no broadcast.
C3_CreatedBroadcastsToCompanyWorkers ==
    \A p \in Writers :
        LET r == requests[p]
            B == Calls(r.sent, IsBroadcast)
        IN  /\ CreationOver(r) =>
                  /\ Cardinality(B) = 1
                  /\ \A i \in B : OneEntryPer(r.sent[i].to, Range(r.staff))
            /\ r.op = "save_application" => B = {}

\* The request has executed its INSERT.
Committed(r) == r.op = "create_application" /\ r.pc \notin {"idle", "prepared"}

\* C4: no two applications share an order; a creation for an order that has
\* an application ends in the uniqueness error, enqueues nothing and leaves
\* the stored application as its writer stored it; of two writers that both
\* built an application for the same free order exactly one succeeds.
C4_OneApplicationPerOrder ==
    /\ \A a, b \in Ids(applications) :
          a # b => applications[a].order # applications[b].order
    /\ \A p \in Writers :
          Committed(requests[p]) =>
              /\ requests[p].error = "IntegrityError" =>
                    /\ requests[p].sent = <<>>
                    /\ ~requests[p].created
                    /\ HasApplication(requests[p].instance.order)
              /\ requests[p].error # "IntegrityError" =>
                    /\ requests[p].created
                    /\ applications[requests[p].target] = requests[p].instance
    /\ \A p, q \in Writers :
          (/\ p # q
           /\ Committed(requests[p]) /\ Committed(requests[q])
           /\ requests[p].free /\ requests[q].free
           /\ requests[p].instance.order = requests[q].instance.order) =>
              (requests[p].error = "IntegrityError")
                  # (requests[q].error = "IntegrityError")

\* C4 witness: both writers built an application for the same free order,
\* with different statuses; one is stored and has run its receivers, the
\* other got the error.
C4_Witness ==
    \E p, q \in Writers :
        /\ requests[p].pc = "done" /\ requests[q].pc = "done"
        /\ requests[p].free /\ requests[q].free
        /\ requests[p].instance.order = requests[q].instance.order
        /\ requests[p].instance.status # requests[q].instance.status
        /\ requests[p].created
        /\ requests[p].error = "none"
        /\ requests[q].error = "IntegrityError"
        /\ OrderApplication(requests[p].instance.order) = requests[p].instance

\* The orders that have an application for sending s.
AppliedOrders(s) == {applications[a].order : a \in {b \in Ids(applications) : applications[b].sending = s}}

\* The total cargo volume of the orders of S, in 10^-8 m^3.
VolumeOf(S) == SumOver([o \in Ids(orders) |-> cargo_volume(orders[o]).coef], S)

\* x hundredths is y * 10^-8 rounded to 2 decimals, ties to the even digit.
IsRoundedTo2(x, y) ==
    LET d == x * 1000000 - y
    IN  /\ 0 - 500000 <= d /\ d <= 500000
        /\ (d = 500000 \/ d = 0 - 500000) => x % 2 = 0

\* C5 as stated: free_volume is total_volume minus the rounded volume of the
\* orders that have an application for the sending.
C5_FreeVolumeOverApplications ==
    \A s \in Ids(sendings) :
        IsRoundedTo2(sendings[s].total_volume - free_volume(s), VolumeOf(AppliedOrders(s)))

\* C5 amended: free_volume is total_volume minus the volume, rounded to 2
\* decimals, of the orders in the sending's own orders relation, which is
\* kept apart from the applications; it may be negative.
C5_FreeVolumeOverOrdersRelation ==
    \A s \in Ids(sendings) :
        IsRoundedTo2(sendings[s].total_volume - free_volume(s), VolumeOf(sendings[s].orders))

\* C5 witness: an over-booked sending (0.20 m^3, orders of 0.1 and 0.2 m^3
\* attached) with a negative free volume, neither order having applied.
C5_Witness ==
    \E s \in Ids(sendings) :
        /\ Cardinality(sendings[s].orders) = 2
        /\ AppliedOrders(s) = {}
        /\ free_volume(s) = 0 - 10

\* C8: cargo_volume is the product of the order's current dimensions rounded
\* to 2 decimals of a cm^3 (ties to even) and then divided by 1,000,000 with
\* nothing rounded after; 100 x 50 x 20 cm gives 0.1 m^3.
C8_CargoVolumeRoundsBeforeScaling ==
    \A o \in Ids(orders) :
        LET p == orders[o].cargo_len * orders[o].cargo_width * orders[o].cargo_depth
            v == cargo_volume(orders[o])
            d == 10 * v.coef - p
        IN  /\ v.exp = 8
            /\ 0 - 5 <= d /\ d <= 5
            /\ (d = 5 \/ d = 0 - 5) => v.coef % 2 = 0
            /\ (<<orders[o].cargo_len, orders[o].cargo_width, orders[o].cargo_depth>>
                    = <<1000, 500, 200>>) => v = [coef |-> 10000000, exp |-> 8]

\* C8 witness: one order of 100 x 50 x 20 cm reads 0.1 m^3, and an order of
\* 0.5 x 0.5 x 0.1 cm (0.025 cm^3, a tie) reads 0.02 cm^3 = 2 * 10^-8 m^3.
C8_Witness ==
    /\ \E o \in Ids(orders) :
          /\ <<orders[o].cargo_len, orders[o].cargo_width, orders[o].cargo_depth>>
                = <<5, 5, 1>>
          /\ cargo_volume(orders[o]) = [coef |-> 2, exp |-> 8]
    /\ \E o \in Ids(orders) : cargo_volume(orders[o]) = [coef |-> 10000000, exp |-> 8]

DigitValue(c) == CHOOSE d \in 0..9 : Digit(d) = c

RECURSIVE ParseNat(_)
ParseNat(str) ==
    IF str = <<>> THEN 0
    ELSE 10 * ParseNat(SubSeq(str, 1, Len(str) - 1)) + DigitValue(str[Len(str)])

ParseInt(str) == IF Head(str) = "-" THEN 0 - ParseNat(Tail(str)) ELSE ParseNat(str)

Multipliers == (0 - MaxSpan)..MaxSpan

EndsIn(n, r, m) == \E k \in Multipliers : n = m * k + r

\* C7: days is the day difference n, a space and the plural form: the first
\* form when n ends in 1 but not in 11, the second when n ends in 2..4 but not
\* in 12..14, the third otherwise, for n negative, zero or positive (a
\* negative n ends in r when n - r is a multiple of 10, resp. 100).
C7_DaysLabel ==
    \A s \in Ids(sendings) :
        LET n == sendings[s].arrival_date - sendings[s].departure_date
            out == days(sendings[s])
            word == out[Len(out)]
        IN  /\ Len(out) >= 3
            /\ out[Len(out) - 1] = " "
            /\ ParseInt(SubSeq(out, 1, Len(out) - 2)) = n
            /\ word = IF EndsIn(n, 1, 10) /\ ~EndsIn(n, 11, 100) THEN "den"
                      ELSE IF /\ \E r \in 2..4 : EndsIn(n, r, 10)
                              /\ ~\E r \in 10..19 : EndsIn(n, r, 100)
                           THEN "dnya"
                      ELSE "dney"
            /\ n = 1 => out = <<"1", " ", "den">>
            /\ n = 11 => out = <<"1", "1", " ", "dney">>
            /\ n = 22 => out = <<"2", "2", " ", "dnya">>
            /\ n = 25 => out = <<"2", "5", " ", "dney">>

\* C7 witness: a sending rescheduled to arrive 9 days before it departs,
\* labelled with the first form (-9 = 10 * (-1) + 1).
C7_Witness ==
    \E p \in Writers :
        /\ requests[p].op = "update_sending"
        /\ num_days(sendings[requests[p].target]) = 0 - 9
        /\ days(sendings[requests[p].target]) = <<"-", "9", " ", "den">>

====
